---------------------------- MODULE Spec2Model ----------------------------
(***************************************************************************)
(* The InvoiceForm component of src/components/InvoiceForm.tsx as a state  *)
(* machine: the React state of the component, the props it is given, the   *)
(* asynchronous extraction calls in flight, and one action per event       *)
(* handler.                                                                *)
(*                                                                         *)
(* JavaScript values are represented as follows.                           *)
(*   string         a TLA+ string; a message built from a template is the  *)
(*                  sequence of its fragments (the empty string is <<>>)   *)
(*   T | null       <<>> for null / undefined, <<v>> for the value v       *)
(*   number         [nan, m, e]: NaN, or the double m * 2^e               *)
(***************************************************************************)
EXTENDS Integers, Sequences, FiniteSets

VARIABLES
    mode,          \* useState 'MANUAL' | 'UPLOAD'                  (line 16)
    ocrText,       \* useState: the staged text                      (line 17)
    selectedFile,  \* useState: the staged document, <<>> = null     (line 18)
    isProcessing,  \* useState: the busy flag                        (line 19)
    formData,      \* useState: the draft, all fields strings        (line 22)
    error,         \* useState: the error message, <<>> = ''         (line 31)
    lockDate,      \* prop: <<>> = null, or <<date string>>          (line 12)
    currentStock,  \* prop: a number                                 (line 11)
    calls,         \* the handleOcrProcess invocations that are suspended
                   \* at an await, each with the values its closure holds
    effects        \* the calls the most recent handler made to its
                   \* collaborators (onAdd, parseInvoiceOCR, generateContent,
                   \* console.error, preventDefault), in order, preceded by
                   \* the value the handler was called with
                   \* (handleTotalChange) or resumed from (await)

vars == <<mode, ocrText, selectedFile, isProcessing, formData, error,
          lockDate, currentStock, calls, effects>>

-----------------------------------------------------------------------------
(* Numbers: IEEE 754 double precision, non-negative and within the normal  *)
(* exponent range. A number is NaN or m * 2^e, m an odd natural number of  *)
(* at most 53 bits (or 0), held as its digits in base 2^15, least first.   *)

Base == 32768

MantissaBits == 53

\* the digits of the natural number k
RECURSIVE BFromInt(_)
BFromInt(k) == IF k = 0 THEN <<>> ELSE <<k % Base>> \o BFromInt(k \div Base)

\* a without leading zero digits
RECURSIVE BTrim(_)
BTrim(a) ==
    IF a = <<>> \/ a[Len(a)] # 0 THEN a ELSE BTrim(SubSeq(a, 1, Len(a) - 1))

\* a * k + carry, for a digit k
RECURSIVE BMulSmall(_, _, _)
BMulSmall(a, k, carry) ==
    IF a = <<>> THEN BFromInt(carry)
    ELSE <<(a[1] * k + carry) % Base>>
         \o BMulSmall(Tail(a), k, (a[1] * k + carry) \div Base)

\* a + b + carry
RECURSIVE BAdd(_, _, _)
BAdd(a, b, carry) ==
    IF a = <<>> THEN (IF carry = 0 THEN b ELSE BAdd(<<carry>>, b, 0))
    ELSE IF b = <<>> THEN (IF carry = 0 THEN a ELSE BAdd(a, <<carry>>, 0))
    ELSE <<(a[1] + b[1] + carry) % Base>>
         \o BAdd(Tail(a), Tail(b), (a[1] + b[1] + carry) \div Base)

\* a * b
RECURSIVE BMul(_, _)
BMul(a, b) ==
    IF a = <<>> \/ b = <<>> THEN <<>>
    ELSE BAdd(BMulSmall(a, b[1], 0),
              IF Len(b) = 1 THEN <<>> ELSE <<0>> \o BMul(a, Tail(b)), 0)

\* the number of bits of the digit k
RECURSIVE IntBitLen(_)
IntBitLen(k) == IF k = 0 THEN 0 ELSE 1 + IntBitLen(k \div 2)

\* the number of bits of a
BitLen(a) == IF a = <<>> THEN 0 ELSE 15 * (Len(a) - 1) + IntBitLen(a[Len(a)])

\* a * 2^k
BShl(a, k) ==
    IF a = <<>> THEN <<>>
    ELSE [i \in 1..(k \div 15) |-> 0] \o BMulSmall(a, 2 ^ (k % 15), 0)

\* a div 2^k
BShr(a, k) ==
    LET w == k \div 15
        r == k % 15
        Digit(i) == IF i > Len(a) THEN 0 ELSE a[i]
    IN  BTrim([i \in 1..(Len(a) - w) |->
                  (Digit(i + w) \div 2 ^ r) + (Digit(i + w + 1) % 2 ^ r) * 2 ^ (15 - r)])

\* bit k of a, bit 0 the lowest
BBit(a, k) ==
    IF k \div 15 + 1 > Len(a) THEN 0 ELSE (a[k \div 15 + 1] \div 2 ^ (k % 15)) % 2

\* a mod 2^k = 0
BLowZero(a, k) ==
    /\ \A i \in 1..(k \div 15) : i > Len(a) \/ a[i] = 0
    /\ k \div 15 + 1 > Len(a) \/ a[k \div 15 + 1] % 2 ^ (k % 15) = 0

\* the number of trailing zero bits of the digit k # 0
RECURSIVE IntTrailingZeros(_)
IntTrailingZeros(k) == IF k % 2 = 1 THEN 0 ELSE 1 + IntTrailingZeros(k \div 2)

\* the number of trailing zero bits of a # 0
RECURSIVE BTrailingZeros(_)
BTrailingZeros(a) ==
    IF a[1] = 0 THEN 15 + BTrailingZeros(Tail(a)) ELSE IntTrailingZeros(a[1])

\* a < b
RECURSIVE BLess(_, _)
BLess(a, b) ==
    IF Len(a) # Len(b) THEN Len(a) < Len(b)
    ELSE IF a = <<>> THEN FALSE
    ELSE IF a[Len(a)] # b[Len(b)] THEN a[Len(a)] < b[Len(b)]
    ELSE BLess(SubSeq(a, 1, Len(a) - 1), SubSeq(b, 1, Len(b) - 1))

\* a div k and whether a mod k # 0, for a digit k: the quotient's digits are
\* found from the highest down, q holding those found so far
RECURSIVE BDivSmall(_, _, _, _)
BDivSmall(a, k, rem, q) ==
    IF a = <<>> THEN [q |-> BTrim(q), inexact |-> rem # 0]
    ELSE BDivSmall(SubSeq(a, 1, Len(a) - 1), k,
                   (rem * Base + a[Len(a)]) % k,
                   <<(rem * Base + a[Len(a)]) \div k>> \o q)

NaN == [nan |-> TRUE, m |-> <<>>, e |-> 0]

\* m * 2^e with m odd, for m # 0 that has z trailing zero bits
Odd(m, e, z) == [nan |-> FALSE, m |-> BShr(m, z), e |-> e + z]

\* the number m * 2^e, for m of at most 53 bits
Canonical(m, e) ==
    IF m = <<>> THEN [nan |-> FALSE, m |-> <<>>, e |-> 0]
    ELSE Odd(m, e, BTrailingZeros(m))

\* m * 2^e without its s lowest bits, rounded to nearest, ties to even
Nearest(m, e, s) ==
    IF s <= 0 THEN Canonical(m, e)
    ELSE Canonical(BAdd(BShr(m, s), <<>>,
                        IF BBit(m, s - 1) = 1
                           /\ (~BLowZero(m, s - 1) \/ BBit(m, s) = 1)
                        THEN 1 ELSE 0),
                   e + s)

\* the double nearest to m * 2^e, ties to the even mantissa
Round(m, e) == Nearest(m, e, BitLen(m) - MantissaBits)

\* the integer k >= 0, which is a double when k < 2^53
Int2Num(k) == Canonical(BFromInt(k), 0)

Zero == Int2Num(0)

IsZero(x) == ~x.nan /\ x.m = <<>>

\* a * b
Mul(a, b) == IF a.nan \/ b.nan THEN NaN ELSE Round(BMul(a.m, b.m), a.e + b.e)

\* a + b
Add(a, b) ==
    IF a.nan \/ b.nan THEN NaN
    ELSE LET e == IF a.e < b.e THEN a.e ELSE b.e
         IN  Round(BAdd(BShl(a.m, a.e - e), BShl(b.m, b.e - e), 0), e)

\* a / b for b > 0 whose mantissa is below 2^15, which the quantities of the
\* model and 100 are: the quotient to 55 bits and more, with a last bit
\* that says whether the division left a remainder, then rounded
Div(a, b) ==
    IF a.nan \/ b.nan THEN NaN
    ELSE IF a.m = <<>> THEN a
    ELSE LET k  == MantissaBits + 2 + BitLen(b.m)
             qr == BDivSmall(BShl(a.m, k), b.m[1], 0, <<>>)
         IN  Round(BAdd(BShl(qr.q, 1), <<>>, IF qr.inexact THEN 1 ELSE 0),
                   a.e - b.e - k - 1)

\* the number n/d
Rat(n, d) == Div(Int2Num(n), Int2Num(d))

\* a / k for an integer literal k > 0
DivBy(a, k) == Div(a, Int2Num(k))

\* a > b: false when either side is NaN
Gt(a, b) ==
    /\ ~a.nan /\ ~b.nan
    /\ LET e == IF a.e < b.e THEN a.e ELSE b.e
       IN  BLess(BShl(b.m, b.e - e), BShl(a.m, a.e - e))

\* x || 0 on a number: NaN and 0 are falsy
OrZero(x) == IF x.nan \/ x.m = <<>> THEN Zero ELSE x

-----------------------------------------------------------------------------
(* Strings *)

\* The decimal texts the model's numbers are written with, and their
\* values. toString prints the shortest decimal that parses back to the
\* number; the last six are the texts of the quotients handleTotalChange
\* computes from the totals and quantities of the model.
NumberText ==
    { <<"0", Int2Num(0)>>,
      <<"3", Int2Num(3)>>, <<"5", Int2Num(5)>>, <<"10.5", Rat(21, 2)>>,
      <<"18", Int2Num(18)>>, <<"6200", Int2Num(6200)>>, <<"6500", Int2Num(6500)>>,
      <<"21", Int2Num(21)>>, <<"23", Int2Num(23)>>,
      <<"7", Div(Int2Num(21), Int2Num(3))>>,
      <<"4.2", Div(Int2Num(21), Int2Num(5))>>,
      <<"2", Div(Int2Num(21), Rat(21, 2))>>,
      <<"7.666666666666667", Div(Int2Num(23), Int2Num(3))>>,
      <<"4.6", Div(Int2Num(23), Int2Num(5))>>,
      <<"2.1904761904761907", Div(Int2Num(23), Rat(21, 2))>> }

\* the member of a set S of at most one element, dflt when S is empty
TheOr(S, dflt) == IF S = {} THEN dflt ELSE CHOOSE x \in S : TRUE

\* parseFloat(s): the number s is the text of; NaN for '' and for text that
\* does not start with a number
ParseFloat(s) == TheOr({p[2] : p \in {q \in NumberText : q[1] = s}}, NaN)

\* Number.prototype.toString
NumToString(x) ==
    IF x.nan THEN "NaN" ELSE (CHOOSE p \in NumberText : p[2] = x)[1]

\* Number.prototype.toFixed(3), on the stock values of the model
ToFixed3(x) ==
    CASE x = Int2Num(5) -> "5.000"
      [] x = Rat(21, 2) -> "10.500"

\* String.prototype.trim, on the staged texts of the model
Trim(s) == IF s = "   " THEN "" ELSE s

\* the character codes of a date string
CharCodes(s) ==
    CASE s = "2024-01-09" -> <<50, 48, 50, 52, 45, 48, 49, 45, 48, 57>>
      [] s = "2024-01-10" -> <<50, 48, 50, 52, 45, 48, 49, 45, 49, 48>>

RECURSIVE LexLeq(_, _)
LexLeq(x, y) ==
    IF x = <<>> THEN TRUE
    ELSE IF y = <<>> THEN FALSE
    ELSE IF Head(x) < Head(y) THEN TRUE
    ELSE IF Head(x) > Head(y) THEN FALSE
    ELSE LexLeq(Tail(x), Tail(y))

\* a <= b on strings: JavaScript compares them code unit by code unit
StrLeq(a, b) == LexLeq(CharCodes(a), CharCodes(b))

\* new Date().toISOString().split('T')[0]
Today == "2024-01-10"

-----------------------------------------------------------------------------
(* The draft *)

DefaultFormData ==
    [date |-> Today, type |-> "PURCHASE", partyName |-> "",
     quantityGrams |-> "", ratePerGram |-> "", gstRate |-> "3"]

\* line 185: the totals returned, for the amounts taxable and gstAmt
Totals(taxable, gstAmt) ==
    [taxable |-> taxable, gstAmt |-> gstAmt, total |-> Add(taxable, gstAmt)]

\* line 184: gstAmt = taxable * (gst / 100)
TaxedTotals(taxable, gst) == Totals(taxable, Mul(taxable, DivBy(gst, 100)))

\* calculateTotals without the || 0 of lines 180-182
CalculateTotalsWithoutDefaults(fd) ==
    TaxedTotals(Mul(ParseFloat(fd.quantityGrams), ParseFloat(fd.ratePerGram)),
                ParseFloat(fd.gstRate))

\* calculateTotals, on the draft fd
CalculateTotals(fd) ==
    TaxedTotals(Mul(OrZero(ParseFloat(fd.quantityGrams)),
                    OrZero(ParseFloat(fd.ratePerGram))),
                OrZero(ParseFloat(fd.gstRate)))

-----------------------------------------------------------------------------
(* The inputs of the model *)

\* the most extraction calls the model lets be suspended at once
MaxInFlight == 2

Modes == {"MANUAL", "UPLOAD"}

\* texts the user can paste: blank, the two invoices of the specification's
\* examples, one naming a party but no quantity or rate, and one with nothing
\* of an invoice in it
SaleText     == "Sold 5g to XYZ Jewellers at Rs 6500 per gram"
PurchaseText == "Purchase invoice, ABC Traders, 10.5g gold @ 6200/g, GST 3%"
PartyOnlyText == "Sold to ABC Traders"
Texts == {"", "   ", SaleText, PurchaseText, PartyOnlyText, "hello"}

\* documents the user can pick (File: name and type)
Files == { [name |-> "invoice.PDF", type |-> ""] }

Dates == {"2024-01-09", "2024-01-10"}

\* values the user can type into the draft's fields
PartyInputs == {"", "ABC Traders"}
QuantityInputs == {"", "3", "5", "10.5"}
RateInputs == {"", "6500"}
GstInputs == {"", "3"}
TotalInputs == {"", "21", "23"}

\* a JSON number and a JSON string, as a field of the service's response
JNum(x) == [t |-> "num", num |-> x, str |-> ""]
JStr(s) == [t |-> "str", num |-> NaN, str |-> s]

\* the objects JSON.parse can return for the service's response text: every
\* field may be missing, and nothing forces a field to have the schema's type
ResponseData ==
    [date          : {<<>>, <<"2024-01-09">>},
     type          : {<<>>, <<"SALE">>},
     partyName     : {<<>>, <<"ABC Traders">>},
     quantityGrams : {<<>>, <<JNum(Int2Num(0))>>, <<JNum(Int2Num(5))>>,
                      <<JStr("abc")>>},
     ratePerGram   : {<<>>, <<JNum(Int2Num(6500))>>},
     gstRate       : {<<>>, <<JNum(Int2Num(18))>>}]

\* how an awaited generateContent call can end: a response whose text parses
\* to an object or to null, a response whose text does not parse (JSON.parse
\* throws a SyntaxError), or a rejection (with or without a message)
ServiceOutcomes ==
    [kind : {"response"}, data : {<<d>> : d \in ResponseData} \cup {<<>>},
     message : {<<>>}]
    \cup [kind : {"malformed"}, data : {<<>>}, message : {<<"Unexpected token">>}]
    \cup [kind : {"rejected"}, data : {<<>>}, message : {<<"fetch failed">>, <<>>}]

\* how an awaited fileToBase64 can fail: reader.onerror rejects with the error
\* event, which has no message
EncodeFailure == [kind |-> "rejected", data |-> <<>>, message |-> <<>>]

LockDates == {<<>>} \cup {<<d>> : d \in Dates}
Stocks == {Int2Num(5)}

-----------------------------------------------------------------------------
(* The fallback text parser, parseInvoiceOCR of ../utils *)

\* the fields found in each text of the model that has a reliable signal
ParsedTexts ==
    { <<SaleText,
        [date |-> <<>>, partyName |-> <<>>, quantity |-> Int2Num(5),
         rate |-> Int2Num(6500), gstRate |-> <<>>, isSale |-> TRUE]>>,
      <<PurchaseText,
        [date |-> <<>>, partyName |-> <<"ABC Traders">>,
         quantity |-> Rat(21, 2), rate |-> Int2Num(6200),
         gstRate |-> <<Int2Num(3)>>, isSale |-> FALSE]>>,
      <<PartyOnlyText,
        [date |-> <<>>, partyName |-> <<"ABC Traders">>,
         quantity |-> Int2Num(0), rate |-> Int2Num(0),
         gstRate |-> <<>>, isSale |-> TRUE]>> }

\* null (<<>>) when the text has no reliable signal, else the fields found
ParseInvoiceOCR(text) ==
    IF \E p \in ParsedTexts : p[1] = text
    THEN << (CHOOSE p \in ParsedTexts : p[1] = text)[2] >>
    ELSE <<>>

-----------------------------------------------------------------------------
(* JavaScript's || and ?. on the optional values of the model *)

\* s || dflt, for an optional string s
StrOr(s, dflt) == IF s # <<>> /\ s[1] # "" THEN s[1] ELSE dflt

\* whether an optional JSON value is truthy
Truthy(v) ==
    /\ v # <<>>
    /\ IF v[1].t = "num" THEN ~v[1].num.nan /\ ~IsZero(v[1].num) ELSE v[1].str # ""

\* v?.toString() || dflt, for an optional JSON value v
ToStringOr(v, dflt) ==
    LET s == IF v = <<>> THEN ""
             ELSE IF v[1].t = "num" THEN NumToString(v[1].num) ELSE v[1].str
    IN  IF s # "" THEN s ELSE dflt

Effect(call, arg) == [call |-> call, arg |-> arg]

-----------------------------------------------------------------------------
(* Initial state: the useState initialisers, and the props of the parent *)

Init ==
    /\ mode = "MANUAL"
    /\ ocrText = ""
    /\ selectedFile = <<>>
    /\ isProcessing = FALSE
    /\ formData = DefaultFormData
    /\ error = <<>>
    /\ lockDate \in LockDates
    /\ currentStock \in Stocks
    /\ calls = <<>>
    /\ effects = <<>>

props == <<lockDate, currentStock>>

-----------------------------------------------------------------------------
(* Header toggle, staging of the input *)

\* the header's mode buttons: onClick={() => setMode(m)}
SetMode(m) ==
    /\ mode' = m
    /\ effects' = <<>>
    /\ UNCHANGED <<ocrText, selectedFile, isProcessing, formData, error, props, calls>>

\* handleFileChange without line 67: the staged text survives the selection
HandleFileChangeKeepingText(f) ==
    /\ mode = "UPLOAD"
    /\ selectedFile' = <<f>>
    /\ effects' = <<>>
    /\ UNCHANGED <<mode, ocrText, isProcessing, formData, error, props, calls>>

\* handleFileChange: the file input exists in UPLOAD mode only
HandleFileChange(f) ==
    /\ mode = "UPLOAD"
    /\ selectedFile' = <<f>>
    /\ ocrText' = ""
    /\ effects' = <<>>
    /\ UNCHANGED <<mode, isProcessing, formData, error, props, calls>>

\* the Remove File button, shown while a file is selected
RemoveFile ==
    /\ mode = "UPLOAD"
    /\ selectedFile # <<>>
    /\ selectedFile' = <<>>
    /\ effects' = <<>>
    /\ UNCHANGED <<mode, ocrText, isProcessing, formData, error, props, calls>>

\* the textarea, rendered only while no file is selected
SetOcrText(t) ==
    /\ mode = "UPLOAD"
    /\ selectedFile = <<>>
    /\ ocrText' = t
    /\ effects' = <<>>
    /\ UNCHANGED <<mode, selectedFile, isProcessing, formData, error, props, calls>>

-----------------------------------------------------------------------------
(* handleOcrProcess *)

\* ProcessDisabled without the busy flag
ProcessDisabledIgnoringBusy(text, file, busy) == text = "" /\ file = <<>>

\* the Process button's disabled attribute
ProcessDisabled(text, file, busy) == (text = "" /\ file = <<>>) \/ busy

\* String.prototype.toLowerCase and endsWith('.pdf'), on the file names of
\* the model
ToLowerCase(name) == IF name = "invoice.PDF" THEN "invoice.pdf" ELSE name

EndsWithPdf(name) == name = "invoice.pdf"

\* DocumentParts without the inline data: the instructions alone are sent
DocumentPartsWithoutData(file) ==
    << [inlineData |-> <<>>,
        text |-> <<"Analyze this invoice document.">>] >>

\* the parts of the request for a document: the inline data, then the
\* instructions
DocumentParts(file) ==
    LET mimeType == IF file.type = "" /\ EndsWithPdf(ToLowerCase(file.name))
                    THEN "application/pdf" ELSE file.type
    IN  << [inlineData |-> << [mimeType |-> IF mimeType # "" THEN mimeType
                                            ELSE "application/pdf",
                               data |-> <<"base64", file.name>>] >>,
            text |-> <<>>],
           [inlineData |-> <<>>,
            text |-> <<"Analyze this invoice document.">>] >>

\* the parts of the request for text
TextParts(text) ==
    << [inlineData |-> <<>>,
        text |-> <<"Extract invoice details from this text. Text: ", text>>] >>

\* a click on the Process button: the handler runs up to its first await
\* with the state of the render it was created in
HandleOcrProcess ==
    /\ mode = "UPLOAD"
    /\ ~ProcessDisabled(ocrText, selectedFile, isProcessing)
    /\ Len(calls) < MaxInFlight
    /\ IF Trim(ocrText) = "" /\ selectedFile = <<>>
       THEN /\ effects' = <<>>
            /\ UNCHANGED <<isProcessing, error, calls>>
       ELSE /\ isProcessing' = TRUE
            /\ error' = <<>>
            /\ IF selectedFile # <<>>
               THEN /\ calls' = Append(calls,
                          [pc |-> "fileToBase64", selectedFile |-> selectedFile,
                           ocrText |-> ocrText, formData |-> formData])
                    /\ effects' = <<>>
               ELSE /\ calls' = Append(calls,
                          [pc |-> "generateContent", selectedFile |-> selectedFile,
                           ocrText |-> ocrText, formData |-> formData])
                    /\ effects' = <<Effect("generateContent", TextParts(ocrText))>>
    /\ UNCHANGED <<mode, ocrText, selectedFile, formData, props>>

Remove(seq, i) == SubSeq(seq, 1, i - 1) \o SubSeq(seq, i + 1, Len(seq))

\* fileToBase64 resolves: the request for the document is sent
FileEncoded(i) ==
    /\ calls[i].pc = "fileToBase64"
    /\ calls' = [calls EXCEPT ![i].pc = "generateContent"]
    /\ effects' = <<Effect("generateContent", DocumentParts(calls[i].selectedFile[1]))>>
    /\ UNCHANGED <<mode, ocrText, selectedFile, isProcessing, formData, error, props>>

\* the test of line 137 on the parsed response
HasSignal(data) ==
    data # <<>> /\ (StrOr(data[1].partyName, "") # "" \/ Truthy(data[1].quantityGrams))

\* StructuredDraft without the defaults of lines 139-144
StructuredDraftWithoutDefaults(d) ==
    [date          |-> StrOr(d.date, ""),
     type          |-> StrOr(d.type, ""),
     partyName     |-> StrOr(d.partyName, ""),
     quantityGrams |-> ToStringOr(d.quantityGrams, ""),
     ratePerGram   |-> ToStringOr(d.ratePerGram, ""),
     gstRate       |-> ToStringOr(d.gstRate, "")]

\* the draft set from the parsed response
StructuredDraft(d) ==
    [date          |-> StrOr(d.date, Today),
     type          |-> StrOr(d.type, "PURCHASE"),
     partyName     |-> StrOr(d.partyName, ""),
     quantityGrams |-> ToStringOr(d.quantityGrams, ""),
     ratePerGram   |-> ToStringOr(d.ratePerGram, ""),
     gstRate       |-> ToStringOr(d.gstRate, "3")]

\* UsesFallback without the test that no document was the input
UsesFallbackForDocuments(c) == TRUE

\* the catch block's test for the fallback, on the closure's values
UsesFallback(c) == c.selectedFile = <<>> /\ c.ocrText # ""

\* FallbackDraft with the type left as the draft has it
FallbackDraftKeepingType(fd, result) ==
    [date          |-> StrOr(result.date, fd.date),
     type          |-> fd.type,
     partyName     |-> StrOr(result.partyName, fd.partyName),
     quantityGrams |-> IF Gt(result.quantity, Zero)
                       THEN NumToString(result.quantity) ELSE "",
     ratePerGram   |-> IF Gt(result.rate, Zero)
                       THEN NumToString(result.rate) ELSE "",
     gstRate       |-> IF result.gstRate # <<>> /\ ~result.gstRate[1].nan
                          /\ ~IsZero(result.gstRate[1])
                       THEN NumToString(result.gstRate[1]) ELSE fd.gstRate]

\* the draft set from the fallback parser's result; fd is the closure's formData
FallbackDraft(fd, result) ==
    [date          |-> StrOr(result.date, fd.date),
     type          |-> IF result.isSale THEN "SALE" ELSE "PURCHASE",
     partyName     |-> StrOr(result.partyName, fd.partyName),
     quantityGrams |-> IF Gt(result.quantity, Zero)
                       THEN NumToString(result.quantity) ELSE "",
     ratePerGram   |-> IF Gt(result.rate, Zero)
                       THEN NumToString(result.rate) ELSE "",
     gstRate       |-> IF result.gstRate # <<>> /\ ~result.gstRate[1].nan
                          /\ ~IsZero(result.gstRate[1])
                       THEN NumToString(result.gstRate[1]) ELSE fd.gstRate]

AutoExtractionFailed == <<"Auto-extraction failed. Please enter details manually.">>

\* the message of the error the try block threw
ThrownMessage(outcome) ==
    IF outcome.kind = "response" THEN <<"Could not extract valid data">>
    ELSE outcome.message

\* the error set to the thrown message itself: none when the error has none
ProcessingFailedWithoutDefault(message) ==
    IF message = <<>> THEN <<>> ELSE <<"Processing failed: ", message[1]>>

ProcessingFailed(message) ==
    <<"Processing failed: ", StrOr(message, "Unknown error"), ". Try manual entry.">>

\* the handler without its finally block
FinallyMissing == UNCHANGED isProcessing

\* the finally block
Finally == isProcessing' = FALSE

\* the rest of the handler once the awaited call has ended with outcome:
\* lines 133-150, the catch block and the finally block
Settle(i, outcome) ==
    LET c == calls[i] IN
    /\ calls' = Remove(calls, i)
    /\ Finally
    /\ IF outcome.kind = "response" /\ HasSignal(outcome.data)
       THEN /\ formData' = StructuredDraft(outcome.data[1])
            /\ mode' = "MANUAL"
            /\ selectedFile' = <<>>
            /\ effects' = << Effect("await", outcome) >>
            /\ UNCHANGED error
       ELSE IF UsesFallback(c)
       THEN LET result == ParseInvoiceOCR(c.ocrText) IN
            /\ effects' = << Effect("await", outcome),
                             Effect("console.error", ThrownMessage(outcome)),
                             Effect("parseInvoiceOCR", c.ocrText) >>
            /\ IF result # <<>>
               THEN /\ formData' = FallbackDraft(c.formData, result[1])
                    /\ mode' = "MANUAL"
                    /\ UNCHANGED error
               ELSE /\ error' = AutoExtractionFailed
                    /\ UNCHANGED <<formData, mode>>
            /\ UNCHANGED selectedFile
       ELSE /\ effects' = << Effect("await", outcome),
                             Effect("console.error", ThrownMessage(outcome)) >>
            /\ error' = ProcessingFailed(ThrownMessage(outcome))
            /\ UNCHANGED <<formData, mode, selectedFile>>
    /\ UNCHANGED <<ocrText, props>>

\* the awaited generateContent call ends
ServiceReturns(i, outcome) ==
    /\ calls[i].pc = "generateContent"
    /\ Settle(i, outcome)

\* the awaited fileToBase64 rejects
FileEncodeFails(i) ==
    /\ calls[i].pc = "fileToBase64"
    /\ Settle(i, EncodeFailure)

-----------------------------------------------------------------------------
(* The draft's fields, edited in MANUAL mode (the form's inputs) *)

SetType(t) ==
    /\ mode = "MANUAL"
    /\ formData' = [formData EXCEPT !.type = t]
    /\ effects' = <<>>
    /\ UNCHANGED <<mode, ocrText, selectedFile, isProcessing, error, props, calls>>

SetDate(d) ==
    /\ mode = "MANUAL"
    /\ formData' = [formData EXCEPT !.date = d]
    /\ effects' = <<>>
    /\ UNCHANGED <<mode, ocrText, selectedFile, isProcessing, error, props, calls>>

SetPartyName(v) ==
    /\ mode = "MANUAL"
    /\ formData' = [formData EXCEPT !.partyName = v]
    /\ effects' = <<>>
    /\ UNCHANGED <<mode, ocrText, selectedFile, isProcessing, error, props, calls>>

SetQuantityGrams(v) ==
    /\ mode = "MANUAL"
    /\ formData' = [formData EXCEPT !.quantityGrams = v]
    /\ effects' = <<>>
    /\ UNCHANGED <<mode, ocrText, selectedFile, isProcessing, error, props, calls>>

SetRatePerGram(v) ==
    /\ mode = "MANUAL"
    /\ formData' = [formData EXCEPT !.ratePerGram = v]
    /\ effects' = <<>>
    /\ UNCHANGED <<mode, ocrText, selectedFile, isProcessing, error, props, calls>>

SetGstRate(v) ==
    /\ mode = "MANUAL"
    /\ formData' = [formData EXCEPT !.gstRate = v]
    /\ effects' = <<>>
    /\ UNCHANGED <<mode, ocrText, selectedFile, isProcessing, error, props, calls>>

\* the taxable-total input is disabled while the quantity is not a number
\* other than 0
TotalDisabled(fd) ==
    ParseFloat(fd.quantityGrams).nan \/ IsZero(ParseFloat(fd.quantityGrams))

\* TotalChanged without the test value === '': whatever is not a derivable
\* total clears the rate
TotalChangedClearingRate(fd, value) ==
    LET total == ParseFloat(value)
        qty   == ParseFloat(fd.quantityGrams)
    IN  IF ~total.nan /\ ~qty.nan /\ Gt(qty, Zero)
        THEN [fd EXCEPT !.ratePerGram = NumToString(Div(total, qty))]
        ELSE [fd EXCEPT !.ratePerGram = ""]

\* TotalChanged with the total itself as the rate
TotalChangedUndivided(fd, value) ==
    LET total == ParseFloat(value)
        qty   == ParseFloat(fd.quantityGrams)
    IN  IF ~total.nan /\ ~qty.nan /\ Gt(qty, Zero)
        THEN [fd EXCEPT !.ratePerGram = NumToString(total)]
        ELSE IF value = "" THEN [fd EXCEPT !.ratePerGram = ""]
        ELSE fd

\* the draft handleTotalChange(value) leaves, from the draft fd
TotalChanged(fd, value) ==
    LET total == ParseFloat(value)
        qty   == ParseFloat(fd.quantityGrams)
    IN  IF ~total.nan /\ ~qty.nan /\ Gt(qty, Zero)
        THEN [fd EXCEPT !.ratePerGram = NumToString(Div(total, qty))]
        ELSE IF value = "" THEN [fd EXCEPT !.ratePerGram = ""]
        ELSE fd

\* a call of handleTotalChange(value)
CallTotalChange(value) ==
    /\ formData' = TotalChanged(formData, value)
    /\ effects' = <<Effect("handleTotalChange", value)>>
    /\ UNCHANGED <<mode, ocrText, selectedFile, isProcessing, error, props, calls>>

\* the taxable-total input's onChange
HandleTotalChange(value) ==
    /\ mode = "MANUAL"
    /\ ~TotalDisabled(formData)
    /\ CallTotalChange(value)

-----------------------------------------------------------------------------
(* handleSubmit *)

\* DateLocked with the lock date itself left open
DateLockedExclusive(fd, lock) ==
    lock # <<>> /\ lock[1] # "" /\ StrLeq(fd.date, lock[1]) /\ fd.date # lock[1]

\* line 193: the period lock
DateLocked(fd, lock) == lock # <<>> /\ lock[1] # "" /\ StrLeq(fd.date, lock[1])

\* line 194: the required fields
MissingFields(fd) == fd.partyName = "" \/ fd.quantityGrams = "" \/ fd.ratePerGram = ""

\* InsufficientInventory with the whole stock unsellable
InsufficientInventoryAtStock(fd, stock) ==
    fd.type = "SALE" /\ (Gt(ParseFloat(fd.quantityGrams), stock)
                          \/ ParseFloat(fd.quantityGrams) = stock)

\* lines 195-196: the stock needed by a sale
InsufficientInventory(fd, stock) ==
    fd.type = "SALE" /\ Gt(ParseFloat(fd.quantityGrams), stock)

DateLockedMessage(lock) == <<"Date Locked! Cannot add before ", lock[1], ".">>

FillAllMessage == <<"Fill all required fields.">>

InsufficientMessage(stock) == <<"Insufficient Inventory! Avail: ", ToFixed3(stock), "g">>

\* Validate with the required fields tested before the period lock
ValidateFieldsFirst(fd, lock, stock) ==
    IF MissingFields(fd) THEN FillAllMessage
    ELSE IF DateLocked(fd, lock) THEN DateLockedMessage(lock)
    ELSE IF InsufficientInventory(fd, stock) THEN InsufficientMessage(stock)
    ELSE <<>>

\* lines 192-196: the error handleSubmit leaves, <<>> when it goes on to onAdd
Validate(fd, lock, stock) ==
    IF DateLocked(fd, lock) THEN DateLockedMessage(lock)
    ELSE IF MissingFields(fd) THEN FillAllMessage
    ELSE IF InsufficientInventory(fd, stock) THEN InsufficientMessage(stock)
    ELSE <<>>

\* lines 198-202: the record handed to onAdd; the totals are those of the
\* render (line 188)
NewTransaction(fd, totals) ==
    [id            |-> "generateId()",
     date          |-> fd.date,
     type          |-> fd.type,
     partyName     |-> fd.partyName,
     quantityGrams |-> ParseFloat(fd.quantityGrams),
     ratePerGram   |-> ParseFloat(fd.ratePerGram),
     gstRate       |-> ParseFloat(fd.gstRate),
     gstAmount     |-> totals.gstAmt,
     taxableAmount |-> totals.taxable,
     totalAmount   |-> totals.total]

\* the totals are those of the render the handler belongs to (line 188)
Transaction(fd) == NewTransaction(fd, CalculateTotals(fd))

\* SubmitCalls with onAdd called before the stock is tested
SubmitCallsBeforeStockTest(fd, lock, stock) ==
    <<Effect("preventDefault", <<>>)>>
    \o (IF ~DateLocked(fd, lock) /\ ~MissingFields(fd)
        THEN <<Effect("onAdd", Transaction(fd))>> ELSE <<>>)

\* the collaborators handleSubmit calls, in order
SubmitCalls(fd, lock, stock) ==
    <<Effect("preventDefault", <<>>)>>
    \o (IF Validate(fd, lock, stock) = <<>>
        THEN <<Effect("onAdd", Transaction(fd))>> ELSE <<>>)

\* handleSubmit with lines 203-205 ahead of the validation: a rejected
\* submission resets the draft and the staged input too
HandleSubmitResettingFirst ==
    /\ mode = "MANUAL"
    /\ effects' = SubmitCalls(formData, lockDate, currentStock)
    /\ error' = Validate(formData, lockDate, currentStock)
    /\ formData' = DefaultFormData
    /\ ocrText' = ""
    /\ selectedFile' = <<>>
    /\ UNCHANGED <<mode, isProcessing, props, calls>>

\* handleSubmit without lines 204-205: the staged input survives a submission
HandleSubmitKeepingStaged ==
    /\ mode = "MANUAL"
    /\ effects' = SubmitCalls(formData, lockDate, currentStock)
    /\ error' = Validate(formData, lockDate, currentStock)
    /\ IF Validate(formData, lockDate, currentStock) = <<>>
       THEN formData' = DefaultFormData
       ELSE UNCHANGED formData
    /\ UNCHANGED <<ocrText, selectedFile, mode, isProcessing, props, calls>>

\* the form's onSubmit; the form exists in MANUAL mode only
HandleSubmit ==
    /\ mode = "MANUAL"
    /\ effects' = SubmitCalls(formData, lockDate, currentStock)
    /\ error' = Validate(formData, lockDate, currentStock)
    /\ IF Validate(formData, lockDate, currentStock) = <<>>
       THEN /\ formData' = DefaultFormData
            /\ ocrText' = ""
            /\ selectedFile' = <<>>
       ELSE UNCHANGED <<formData, ocrText, selectedFile>>
    /\ UNCHANGED <<mode, isProcessing, props, calls>>

-----------------------------------------------------------------------------
(* Specifications *)

Staging ==
    \/ \E m \in Modes : SetMode(m)
    \/ \E f \in Files : HandleFileChange(f)
    \/ RemoveFile
    \/ \E t \in Texts : SetOcrText(t)

Extraction ==
    \/ HandleOcrProcess
    \/ \E i \in 1..Len(calls) : FileEncoded(i)
    \/ \E i \in 1..Len(calls) : FileEncodeFails(i)
    \/ \E i \in 1..Len(calls) : \E o \in ServiceOutcomes : ServiceReturns(i, o)

Editing ==
    \/ \E t \in {"PURCHASE", "SALE"} : SetType(t)
    \/ \E d \in Dates : SetDate(d)
    \/ \E v \in PartyInputs : SetPartyName(v)
    \/ \E v \in QuantityInputs : SetQuantityGrams(v)
    \/ \E v \in RateInputs : SetRatePerGram(v)
    \/ \E v \in GstInputs : SetGstRate(v)
    \/ \E v \in TotalInputs : HandleTotalChange(v)

\* every event of the component
Next == Staging \/ Extraction \/ Editing \/ HandleSubmit

Spec == Init /\ [][Next]_vars

\* the AI-scan workflow: the draft is written by extraction only, then submitted
NextScan == Staging \/ Extraction \/ HandleSubmit

SpecScan == Init /\ [][NextScan]_vars

\* one response for each way lines 137-145 can treat the party name and the
\* quantity, the other fields absent; with them, every way a call can end
OutcomeSamples ==
    { o \in ServiceOutcomes :
        (o.kind = "response" /\ o.data # <<>>)
        => /\ o.data[1].date = <<>> /\ o.data[1].type = <<>>
           /\ o.data[1].ratePerGram = <<>> /\ o.data[1].gstRate = <<>> }

\* staging and extraction alone
NextExtract ==
    \/ Staging
    \/ HandleOcrProcess
    \/ \E i \in 1..Len(calls) : FileEncoded(i)
    \/ \E i \in 1..Len(calls) : FileEncodeFails(i)
    \/ \E i \in 1..Len(calls) : \E o \in OutcomeSamples : ServiceReturns(i, o)

\* the awaited calls end: the browser encodes the file or fails to, the
\* service responds or errors
ServiceProgress ==
    /\ WF_vars(\E i \in 1..Len(calls) : FileEncoded(i) \/ FileEncodeFails(i))
    /\ WF_vars(\E i \in 1..Len(calls) : \E o \in OutcomeSamples : ServiceReturns(i, o))

SpecExtractLive == Init /\ [][NextExtract]_vars /\ ServiceProgress

\* extraction, with the date, the party name and the tax rate edited while a
\* call is pending
NextPendingEdits ==
    \/ NextExtract
    \/ \E d \in Dates : SetDate(d)
    \/ \E v \in PartyInputs : SetPartyName(v)
    \/ \E v \in GstInputs : SetGstRate(v)

SpecPendingEdits == Init /\ [][NextPendingEdits]_vars

\* handleTotalChange as a function of the draft and the value it is called
\* with: the drafts the form can hold, a quantity of 0 and a non-numeric one
\* among them, and the values, a non-numeric one among them
HandlerDrafts ==
    [date : {Today}, type : {"PURCHASE", "SALE"}, partyName : PartyInputs,
     quantityGrams : QuantityInputs \cup {"0", "abc"},
     ratePerGram : RateInputs, gstRate : GstInputs]

InitTotalChange ==
    /\ mode = "MANUAL"
    /\ ocrText = ""
    /\ selectedFile = <<>>
    /\ isProcessing = FALSE
    /\ formData \in HandlerDrafts
    /\ error = <<>>
    /\ lockDate \in LockDates
    /\ currentStock \in Stocks
    /\ calls = <<>>
    /\ effects = <<>>

NextTotalChange == \E v \in TotalInputs \cup {"abc"} : CallTotalChange(v)

SpecTotalChange == InitTotalChange /\ [][NextTotalChange]_vars

\* the manual workflow: the draft is typed, then submitted
NextManual == Editing \/ HandleSubmit

SpecManual == Init /\ [][NextManual]_vars

-----------------------------------------------------------------------------
(* Properties *)

\* the calls to the collaborator `name` among eff
CallsTo(eff, name) == SelectSeq(eff, LAMBDA e : e.call = name)

\* the transactions handed to onAdd by the most recent handler
Added == CallsTo(effects, "onAdd")

\* a message that shows something
NonEmpty(message) == \E k \in 1..Len(message) : message[k] # ""

\* the calendar day a date string names, as the number yyyymmdd
DayNumber(s) ==
    LET c == CharCodes(s)
        Digit(k) == c[k] - 48
    IN  (Digit(1) * 1000 + Digit(2) * 100 + Digit(3) * 10 + Digit(4)) * 10000
        + (Digit(6) * 10 + Digit(7)) * 100
        + (Digit(9) * 10 + Digit(10))

\* C1: at most one extraction is in flight at any time: while the busy flag is
\* set no step starts another one, so no second request is ever pending.
C1_OneExtractionInFlight ==
    [][ /\ Len(calls') <= 1
        /\ isProcessing => /\ Len(calls') <= Len(calls)
                           /\ \A e \in {effects'[k] : k \in 1..Len(effects')} :
                                 e.call = "generateContent"
                                 => \E i \in 1..Len(calls) :
                                       calls[i].pc = "fileToBase64" ]_vars

\* C1 witness: an extraction is pending and the user is in front of the
\* Process button with an input staged.
C1_Witness ==
    /\ isProcessing
    /\ Len(calls) = 1
    /\ mode = "UPLOAD"
    /\ ocrText # "" \/ selectedFile # <<>>

\* C2 (as claimed): when the only pending call ends after the draft was reset
\* -- the draft the call started from was not the default one and the draft
\* is the default one now, which under SpecScan only a successful submit
\* brings about -- the draft still holds its default values afterwards.
C2_ResultDiscardedAfterReset ==
    [][ ( /\ Len(calls) = 1 /\ calls' = <<>>
          /\ calls[1].formData # DefaultFormData
          /\ formData = DefaultFormData )
        => formData' = DefaultFormData ]_vars

\* the most recent step ran the rest of pending call i after its awaited
\* call ended (nxt is the list of pending calls after the step)
Ended(i, nxt) == nxt = Remove(calls, i)

\* C3: when an extraction whose input was text fails, the fallback parser is
\* called on that text, exactly once; if it returns a result the draft's type
\* is SALE exactly when the result says sale, quantity and rate are the parsed
\* values (empty when none was found) and no error is set; if it returns
\* none the auto-extraction error is shown.
C3_TextFailureUsesFallback ==
    [][ \A i \in 1..Len(calls) :
          ( /\ Ended(i, calls')
            /\ calls[i].selectedFile = <<>>
            /\ CallsTo(effects', "console.error") # <<>> )
          => LET text   == calls[i].ocrText
                 result == ParseInvoiceOCR(text)
             IN  /\ CallsTo(effects', "parseInvoiceOCR")
                      = <<Effect("parseInvoiceOCR", text)>>
                 /\ result # <<>> =>
                      /\ formData'.type = "SALE" <=> result[1].isSale
                      /\ formData'.type = "PURCHASE" <=> ~result[1].isSale
                      /\ IF Gt(result[1].quantity, Zero)
                         THEN ParseFloat(formData'.quantityGrams) = result[1].quantity
                         ELSE formData'.quantityGrams = ""
                      /\ IF Gt(result[1].rate, Zero)
                         THEN ParseFloat(formData'.ratePerGram) = result[1].rate
                         ELSE formData'.ratePerGram = ""
                      /\ error' = error
                 /\ result = <<>> =>
                      /\ error' = AutoExtractionFailed
                      /\ formData' = formData ]_vars

\* C3 witness: the specification's end-to-end example; the text failed
\* structured extraction and the draft holds the parsed sale.
C3_Witness ==
    /\ CallsTo(effects, "console.error") # <<>>
    /\ CallsTo(effects, "parseInvoiceOCR") = <<Effect("parseInvoiceOCR", SaleText)>>
    /\ formData.type = "SALE"
    /\ formData.quantityGrams = "5"
    /\ formData.ratePerGram = "6500"
    /\ error = <<>>

\* C4: when an extraction whose input was a document fails, the fallback
\* parser is not called, the error state holds a non-empty reason, and the
\* draft, the mode and the staged document are as before.
C4_DocumentFailureSetsError ==
    [][ \A i \in 1..Len(calls) :
          ( /\ Ended(i, calls')
            /\ calls[i].selectedFile # <<>>
            /\ CallsTo(effects', "console.error") # <<>> )
          => /\ CallsTo(effects', "parseInvoiceOCR") = <<>>
             /\ NonEmpty(error')
             /\ formData' = formData
             /\ mode' = mode
             /\ selectedFile' = selectedFile ]_vars

\* C4 witness: a document's extraction has just failed and its reason shows,
\* the document still staged.
C4_Witness ==
    /\ CallsTo(effects, "console.error") # <<>>
    /\ CallsTo(effects, "parseInvoiceOCR") = <<>>
    /\ selectedFile # <<>>
    /\ error # <<>> /\ error[1] = "Processing failed: "

\* the most recent step was a submission
Submitted(eff) == CallsTo(eff, "preventDefault") # <<>>

\* the validation rules as the specification words them
RuleLocked(fd, lock) ==
    lock # <<>> /\ DayNumber(fd.date) <= DayNumber(lock[1])

\* a required field is absent
RuleMissing(fd) ==
    fd.partyName = "" \/ fd.quantityGrams = "" \/ fd.ratePerGram = ""

\* quantity and rate are numbers
RuleNumeric(fd) ==
    ~ParseFloat(fd.quantityGrams).nan /\ ~ParseFloat(fd.ratePerGram).nan

RuleShortOfStock(fd, stock) ==
    fd.type = "SALE" /\ Gt(ParseFloat(fd.quantityGrams), stock)

IsDateLockedError(message) ==
    message # <<>> /\ message[1] = "Date Locked! Cannot add before "

IsInsufficientError(message) ==
    message # <<>> /\ message[1] = "Insufficient Inventory! Avail: "

C6_OnAddOncePerAcceptedSubmission ==
    [][ LET added == CallsTo(effects', "onAdd") IN
        IF Submitted(effects')
        THEN /\ error' = <<>> => Len(added) = 1
             /\ error' # <<>> => Len(added) = 0
        ELSE Len(added) = 0 ]_vars

\* C6 witness: a submission was accepted and onAdd called.
C6_Witness == Submitted(effects) /\ error = <<>> /\ Len(Added) = 1

\* C7 (as claimed): every transaction handed to onAdd has a party name and a
\* numeric quantity and rate.
C7_AddedHasNumericFields ==
    \A k \in 1..Len(Added) :
       /\ Added[k].arg.partyName # ""
       /\ ~Added[k].arg.quantityGrams.nan
       /\ ~Added[k].arg.ratePerGram.nan

\* C8: for a draft that passes the lock and completeness rules, a sale of
\* exactly the stock is accepted, a sale of more than the stock is rejected
\* with the insufficient-inventory error that reports the stock, and a
\* purchase is accepted whatever the stock.
C8_SaleWithinStock ==
    [][ ( /\ Submitted(effects')
          /\ ~RuleLocked(formData, lockDate)
          /\ ~RuleMissing(formData) /\ RuleNumeric(formData) )
        => LET qty == ParseFloat(formData.quantityGrams) IN
           /\ (formData.type = "SALE" /\ qty = currentStock)
                 => error' = <<>> /\ Len(CallsTo(effects', "onAdd")) = 1
           /\ (formData.type = "SALE" /\ Gt(qty, currentStock))
                 => /\ error' = <<"Insufficient Inventory! Avail: ",
                                  ToFixed3(currentStock), "g">>
                    /\ CallsTo(effects', "onAdd") = <<>>
           /\ formData.type = "PURCHASE"
                 => error' = <<>> /\ Len(CallsTo(effects', "onAdd")) = 1 ]_vars

\* C8 witness: a sale of exactly the stock was accepted.
C8_Witness ==
    /\ Len(Added) = 1
    /\ Added[1].arg.type = "SALE"
    /\ Added[1].arg.quantityGrams = currentStock

\* C9: a submission ends with the date-locked error, naming the lock date,
\* exactly when a lock date is configured and the draft's date is on or
\* before it.
C9_LockedOnOrBeforeLockDate ==
    [][ Submitted(effects') =>
          /\ IsDateLockedError(error')
               <=> /\ lockDate # <<>>
                   /\ DayNumber(formData.date) <= DayNumber(lockDate[1])
          /\ IsDateLockedError(error') => error'[2] = lockDate[1] ]_vars

\* C9 witness: a draft dated on the lock date itself was rejected.
C9_Witness ==
    /\ Submitted(effects)
    /\ IsDateLockedError(error)
    /\ lockDate # <<>> /\ formData.date = lockDate[1]

\* a = b on numbers: NaN equals nothing
NumEq(a, b) == ~a.nan /\ ~b.nan /\ a = b

\* C10 (as claimed): every transaction handed to onAdd is consistent with its
\* own quantity, rate and tax rate.
C10_AddedIsConsistent ==
    \A k \in 1..Len(Added) :
       LET tx == Added[k].arg IN
       /\ NumEq(tx.taxableAmount, Mul(tx.quantityGrams, tx.ratePerGram))
       /\ NumEq(tx.gstAmount, Mul(tx.taxableAmount, DivBy(tx.gstRate, 100)))
       /\ NumEq(tx.totalAmount, Add(tx.taxableAmount, tx.gstAmount))

\* C11: after every accepted submission the draft is the default one --
\* today's date, type PURCHASE, no party name, no quantity, no rate, tax rate
\* 3 -- and neither text nor document is staged.
C11_AcceptedSubmissionResets ==
    [][ (Submitted(effects') /\ CallsTo(effects', "onAdd") # <<>>)
        => /\ formData' = [ date |-> Today, type |-> "PURCHASE",
                            partyName |-> "", quantityGrams |-> "",
                            ratePerGram |-> "", gstRate |-> "3" ]
           /\ ocrText' = ""
           /\ selectedFile' = <<>> ]_vars

\* C11 witness: a sale extracted from staged text was accepted; the draft is
\* the default one again and nothing is staged.
C11_Witness ==
    /\ Len(Added) = 1
    /\ Added[1].arg.type = "SALE"
    /\ Added[1].arg.partyName = "ABC Traders"
    /\ formData = DefaultFormData
    /\ ocrText = "" /\ selectedFile = <<>>

\* the requests the most recent step sent to the extraction service
Requests(eff) == CallsTo(eff, "generateContent")

\* C12: a step sends at most one request, and a request carries exactly one
\* input. The request of a call started with a document staged is sent when
\* the document is encoded and holds the document's data and the fixed
\* instructions, in which the staged text does not occur; the request of a
\* call started with no document staged is sent at once and holds one part,
\* the prompt with the staged text, and no inline data.
C12_OneInputPerRequest ==
    [][ /\ Len(Requests(effects')) <= 1
        /\ \A k \in 1..Len(Requests(effects')) :
             LET parts == Requests(effects')[k].arg IN
             \/ /\ selectedFile = <<>>
                /\ calls' = Append(calls, calls'[Len(calls')])
                /\ parts = << [inlineData |-> <<>>,
                               text |-> <<"Extract invoice details from this text. Text: ",
                                          ocrText>>] >>
             \/ \E i \in 1..Len(calls) :
                   /\ calls[i].pc = "fileToBase64"
                   /\ calls[i].selectedFile # <<>>
                   /\ calls' = [calls EXCEPT ![i].pc = "generateContent"]
                   /\ Len(parts) = 2
                   /\ parts[1].inlineData # <<>>
                   /\ parts[1].inlineData[1].data
                        = <<"base64", calls[i].selectedFile[1].name>>
                   /\ parts[1].text = <<>>
                   /\ parts[2] = [inlineData |-> <<>>,
                                  text |-> <<"Analyze this invoice document.">>]
                   /\ calls[i].ocrText # ""
                        => \A p \in 1..2 : \A f \in 1..Len(parts[p].text) :
                              parts[p].text[f] # calls[i].ocrText
        /\ (Len(calls') > Len(calls) /\ selectedFile # <<>>)
             => Requests(effects') = <<>> ]_vars

\* C12 witness: the request for a staged document has just been sent, with
\* the document's data in it.
C12_Witness ==
    /\ Len(Requests(effects)) = 1
    /\ Len(calls) = 1 /\ calls[1].selectedFile # <<>>
    /\ Requests(effects)[1].arg[1].inlineData # <<>>

\* the results of the awaited calls the most recent step resumed from
Awaited(eff) == CallsTo(eff, "await")

\* the text a draft field shows for an optional JSON value: the string
\* itself, or the decimal text of the number
ShowsValue(field, v) ==
    IF v[1].t = "num" THEN ParseFloat(field) = v[1].num ELSE field = v[1].str

\* what C13 asks of a step that resumed from the response data d: the draft
\* holds the fields of d, each absent one defaulted; the mode is MANUAL; no
\* document is staged; the error is as before; the parser was not called
ResponseApplied(d) ==
    /\ formData'.date = (IF d.date = <<>> THEN Today ELSE d.date[1])
    /\ formData'.type = (IF d.type = <<>> THEN "PURCHASE" ELSE d.type[1])
    /\ formData'.partyName = (IF d.partyName = <<>> THEN "" ELSE d.partyName[1])
    /\ IF d.quantityGrams = <<>> THEN formData'.quantityGrams = ""
       ELSE ShowsValue(formData'.quantityGrams, d.quantityGrams)
    /\ IF d.ratePerGram = <<>> THEN formData'.ratePerGram = ""
       ELSE ShowsValue(formData'.ratePerGram, d.ratePerGram)
    /\ IF d.gstRate = <<>> THEN formData'.gstRate = "3"
       ELSE ShowsValue(formData'.gstRate, d.gstRate)
    /\ mode' = "MANUAL"
    /\ selectedFile' = <<>>
    /\ error' = error
    /\ CallsTo(effects', "parseInvoiceOCR") = <<>>

\* C13 (as claimed): when the service's response parses to an object that
\* has a party name or a quantity, the draft is replaced by the response's
\* fields, each missing one defaulted, the mode becomes MANUAL, the staged
\* document is cleared, no error is set and the parser is not called.
C13_AnyPartyOrQuantityApplies ==
    [][ \A k \in 1..Len(Awaited(effects')) :
          LET o == Awaited(effects')[k].arg IN
          ( /\ o.kind = "response" /\ o.data # <<>>
            /\ o.data[1].partyName # <<>> \/ o.data[1].quantityGrams # <<>> )
          => ResponseApplied(o.data[1]) ]_vars

\* C13 (amended): the same, for a response that has a party name or a
\* quantity other than 0.
C13_PartyOrNonZeroQuantityApplies ==
    [][ \A k \in 1..Len(Awaited(effects')) :
          LET o == Awaited(effects')[k].arg IN
          ( /\ o.kind = "response" /\ o.data # <<>>
            /\ \/ o.data[1].partyName # <<>>
               \/ /\ o.data[1].quantityGrams # <<>>
                  /\ o.data[1].quantityGrams[1] # JNum(Int2Num(0)) )
          => ResponseApplied(o.data[1]) ]_vars

\* C13 witness: a response with a quantity and neither date, type nor tax
\* rate has just been applied.
C13_Witness ==
    /\ Len(Awaited(effects)) = 1
    /\ Awaited(effects)[1].arg.kind = "response"
    /\ Awaited(effects)[1].arg.data # <<>>
    /\ Awaited(effects)[1].arg.data[1].quantityGrams = <<JNum(Int2Num(5))>>
    /\ Awaited(effects)[1].arg.data[1].date = <<>>
    /\ formData.quantityGrams = "5" /\ formData.date = Today
    /\ formData.type = "PURCHASE" /\ formData.gstRate = "3"
    /\ mode = "MANUAL" /\ selectedFile = <<>> /\ error = <<>>

\* C15: the busy flag is set exactly in the states in which an extraction
\* call is pending, and every pending call leads to a state in which none
\* is pending and the flag is cleared -- however the call ends -- provided
\* the awaited calls end.
C15_BusyWhilePending ==
    /\ [](isProcessing <=> calls # <<>>)
    /\ (calls # <<>>) ~> (calls = <<>> /\ ~isProcessing)

\* C15 witness: a call has just ended in the fallback and the flag is clear.
C15_Witness ==
    /\ CallsTo(effects, "parseInvoiceOCR") # <<>>
    /\ calls = <<>> /\ ~isProcessing

\* C16: a submission that does not reach onAdd leaves a non-empty error that
\* names the rule that failed -- the lock, a missing field or the stock --
\* and an extraction that fails without the parser filling the draft leaves
\* a non-empty extraction error.
C16_RejectionCarriesReason ==
    [][ /\ (Submitted(effects') /\ CallsTo(effects', "onAdd") = <<>>)
             => /\ NonEmpty(error')
                /\ \/ IsDateLockedError(error') /\ RuleLocked(formData, lockDate)
                   \/ error' = FillAllMessage /\ RuleMissing(formData)
                   \/ /\ IsInsufficientError(error')
                      /\ RuleShortOfStock(formData, currentStock)
        /\ ( /\ CallsTo(effects', "console.error") # <<>>
             /\ \A k \in 1..Len(CallsTo(effects', "parseInvoiceOCR")) :
                   ParseInvoiceOCR(CallsTo(effects', "parseInvoiceOCR")[k].arg) = <<>> )
             => /\ NonEmpty(error')
                /\ \/ error' = <<"Auto-extraction failed. Please enter details manually.">>
                   \/ error'[1] = "Processing failed: " ]_vars

\* C16 witness: the service rejected a document's request with an error that
\* has no message, and the error state shows the failure.
C16_Witness ==
    /\ Len(Awaited(effects)) = 1
    /\ Awaited(effects)[1].arg.kind = "rejected"
    /\ Awaited(effects)[1].arg.message = <<>>
    /\ NonEmpty(error) /\ error[1] = "Processing failed: "

\* C19: a submission that does not reach onAdd changes the error message at
\* most: the draft, the staged text, the staged document, the mode and the
\* busy flag are as before, so the same draft can be corrected and
\* resubmitted.
C19_RejectionChangesErrorOnly ==
    [][ (Submitted(effects') /\ CallsTo(effects', "onAdd") = <<>>)
        => /\ formData' = formData
           /\ ocrText' = ocrText
           /\ selectedFile' = selectedFile
           /\ mode' = mode
           /\ isProcessing' = isProcessing ]_vars

\* C19 witness: an extracted draft was rejected; the draft and the text it
\* was extracted from are still there.
C19_Witness ==
    /\ Submitted(effects) /\ Added = <<>>
    /\ error # <<>>
    /\ formData # DefaultFormData
    /\ ocrText # ""

\* C20 (as claimed): when a step applies the parser's result, each of date,
\* party name and tax rate that the parser did not find is afterwards what
\* the draft held just before the step, quantity and rate are the parsed
\* values or empty when these are not > 0, and the type is the parsed one.
C20_FallbackKeepsCurrentDraft ==
    [][ \A k \in 1..Len(CallsTo(effects', "parseInvoiceOCR")) :
          LET result == ParseInvoiceOCR(CallsTo(effects', "parseInvoiceOCR")[k].arg) IN
          result # <<>> =>
            LET r == result[1] IN
            /\ r.date = <<>> => formData'.date = formData.date
            /\ r.partyName = <<>> => formData'.partyName = formData.partyName
            /\ r.gstRate = <<>> => formData'.gstRate = formData.gstRate
            /\ ~Gt(r.quantity, Zero) => formData'.quantityGrams = ""
            /\ ~Gt(r.rate, Zero) => formData'.ratePerGram = ""
            /\ formData'.type = (IF r.isSale THEN "SALE" ELSE "PURCHASE") ]_vars

\* the values handleTotalChange was called with in the most recent step
TotalEdits(eff) == CallsTo(eff, "handleTotalChange")

\* C14: a call of handleTotalChange with a numeric total, the draft's
\* quantity numeric and > 0, sets the rate to the text of total / quantity;
\* a call with the empty total sets the rate to empty; every other call --
\* the quantity 0 or non-numeric, or the total non-numeric -- leaves the
\* rate as it was. The rate is never the text of NaN or of an infinity, and
\* every other field of the draft is as before.
C14_TotalEditSetsRateOnly ==
    [][ \A k \in 1..Len(TotalEdits(effects')) :
          LET value == TotalEdits(effects')[k].arg
              total == ParseFloat(value)
              qty   == ParseFloat(formData.quantityGrams)
              derivable == ~qty.nan /\ Gt(qty, Zero) /\ ~total.nan
          IN  /\ derivable => ParseFloat(formData'.ratePerGram) = Div(total, qty)
              /\ (~derivable /\ value = "") => formData'.ratePerGram = ""
              /\ (~derivable /\ value # "")
                    => formData'.ratePerGram = formData.ratePerGram
              /\ formData'.ratePerGram \notin {"NaN", "Infinity"}
              /\ formData' = [formData EXCEPT !.ratePerGram = formData'.ratePerGram]
      ]_vars

\* C14 witness: a total was entered for a draft whose quantity is 0, and
\* the rate is the one typed before.
C14_Witness ==
    /\ TotalEdits(effects) = <<Effect("handleTotalChange", "21")>>
    /\ formData.quantityGrams = "0"
    /\ formData.ratePerGram = "6500"

\* the number a draft field stands for in the totals: 0 when the field is
\* empty or not numeric
ValueOrZero(field) ==
    IF field = "" \/ ParseFloat(field).nan THEN Zero ELSE ParseFloat(field)

\* the totals C17 states, from the taxable amount and the tax amount
TotalsOf(taxable, gst) ==
    [taxable |-> taxable, gstAmt |-> gst, total |-> Add(taxable, gst)]

\* C17: in every state the totals computed from the draft are numbers, with
\* taxable = quantity * rate, gst = taxable * (tax rate / 100) and total =
\* taxable + gst, a field that is empty or not numeric counting as 0; and the
\* amounts handed to onAdd are the totals of the draft being submitted.
C17_TotalsOfCurrentDraft ==
    /\ [] LET q == ValueOrZero(formData.quantityGrams)
              r == ValueOrZero(formData.ratePerGram)
              g == ValueOrZero(formData.gstRate)
              TaxOn(taxable) == TotalsOf(taxable, Mul(taxable, DivBy(g, 100)))
              Numbers(t) == ~t.taxable.nan /\ ~t.gstAmt.nan /\ ~t.total.nan
          IN  /\ CalculateTotals(formData) = TaxOn(Mul(q, r))
              /\ Numbers(TaxOn(Mul(q, r)))
    /\ [][ \A k \in 1..Len(CallsTo(effects', "onAdd")) :
             LET tx == CallsTo(effects', "onAdd")[k].arg IN
             [taxable |-> tx.taxableAmount, gstAmt |-> tx.gstAmount,
              total |-> tx.totalAmount] = CalculateTotals(formData) ]_vars

\* C17 witness: the draft holds a quantity that is not a number and a rate,
\* and its totals are 0.
C17_Witness ==
    /\ formData.quantityGrams = "abc"
    /\ formData.ratePerGram = "6500"
    /\ CalculateTotals(formData).total = Zero

\* the taxable amount recomputed from the draft fd with the tax rate 0
RecomputedTaxable(fd) == CalculateTotals([fd EXCEPT !.gstRate = "0"]).taxable

\* |a - b| <= tol, for numbers a and b
Within(a, b, tol) ==
    /\ ~a.nan /\ ~b.nan
    /\ ~Gt(a, Add(b, tol)) /\ ~Gt(b, Add(a, tol))

\* a and b differ by no more than the rounding of a division and a
\* multiplication can give: by at most b * 2^-51, and by at most 0.01
RoundingApart(a, b) ==
    /\ Within(a, b, Mul(b, Round(<<1>>, -51)))
    /\ Within(a, b, Rat(1, 100))

\* C18 as claimed: after the taxable total is edited to a numeric total, the
\* draft's quantity numeric and > 0, the taxable amount recomputed from the
\* draft is that total exactly.
C18_RoundTripExact ==
    [][ \A k \in 1..Len(TotalEdits(effects')) :
          LET total == ParseFloat(TotalEdits(effects')[k].arg)
              qty   == ParseFloat(formData.quantityGrams)
          IN  (~total.nan /\ ~qty.nan /\ Gt(qty, Zero))
                  => RecomputedTaxable(formData') = total ]_vars

\* C18, amended: after the taxable total is edited to a numeric total, the
\* draft's quantity numeric and > 0, the taxable amount recomputed from the
\* draft is that total up to rounding: they differ by at most total * 2^-51,
\* which for the totals of the model is less than 0.01.
C18_RoundTripUpToRounding ==
    [][ \A k \in 1..Len(TotalEdits(effects')) :
          LET total == ParseFloat(TotalEdits(effects')[k].arg)
              qty   == ParseFloat(formData.quantityGrams)
          IN  (~total.nan /\ ~qty.nan /\ Gt(qty, Zero))
                  => RoundingApart(RecomputedTaxable(formData'), total) ]_vars

\* C18 witness: the total 23 was entered for the quantity 10.5; the rate is
\* the double nearest to 23 / 10.5, and the recomputed taxable amount is
\* more than 23, by no more than rounding gives.
C18_Witness ==
    /\ TotalEdits(effects) = <<Effect("handleTotalChange", "23")>>
    /\ formData.quantityGrams = "10.5"
    /\ formData.ratePerGram = "2.1904761904761907"
    /\ Gt(RecomputedTaxable(formData), Int2Num(23))
    /\ RoundingApart(RecomputedTaxable(formData), Int2Num(23))

\* a document and non-empty text are never staged together
StagedApart(text, file) == file = <<>> \/ text = ""

\* a step that stages a document leaves no staged text, and a step that
\* changes the staged text to non-empty text starts and ends with no document
StagingKeepsApart ==
    /\ (selectedFile' # <<>> /\ selectedFile' # selectedFile) => ocrText' = ""
    /\ (ocrText' # "" /\ ocrText' # ocrText)
          => (selectedFile = <<>> /\ selectedFile' = <<>>)

\* C21 as claimed: in every state a staged document and non-empty staged
\* text do not coexist; selecting a document clears the staged text, the
\* text is edited only while no document is staged, and every submission
\* leaves neither text nor document staged.
C21_StagedApartEverySubmitClears ==
    /\ [] StagedApart(ocrText, selectedFile)
    /\ [][StagingKeepsApart]_vars
    /\ [][ Submitted(effects') => (ocrText' = "" /\ selectedFile' = <<>>) ]_vars

\* C21, amended: in every state a staged document and non-empty staged text
\* do not coexist; selecting a document clears the staged text, the text is
\* edited only while no document is staged, a submission that reaches onAdd
\* leaves neither staged, and a submission that does not leaves both as
\* they were.
C21_StagedApartAcceptedSubmitClears ==
    /\ [] StagedApart(ocrText, selectedFile)
    /\ [][StagingKeepsApart]_vars
    /\ [][ Submitted(effects')
            => IF CallsTo(effects', "onAdd") # <<>>
               THEN ocrText' = "" /\ selectedFile' = <<>>
               ELSE ocrText' = ocrText /\ selectedFile' = selectedFile ]_vars

\* C21 witness: text was staged and sent (the pending call still holds it),
\* then a document was selected: the document is staged and the text is gone.
C21_Witness ==
    /\ selectedFile # <<>>
    /\ ocrText = ""
    /\ \E i \in 1..Len(calls) :
          calls[i].ocrText # "" /\ calls[i].selectedFile = <<>>

=============================================================================
